---- MODULE Spec2Model ----
(***************************************************************************)
(* Model of the vSphere CIS session client (src/src/cis.rs,                *)
(* src/src/common.rs): the Session value, its three asynchronous           *)
(* operations login, login_status and logout, the request each of them     *)
(* builds and the way each maps the server's response to a result.         *)
(*                                                                         *)
(* Option<T> is a sequence of length at most one: <<>> is None and <<x>>   *)
(* is Some(x).  Strings that the code concatenates (hostname, endpoint,    *)
(* URL) are sequences of characters; opaque strings (tokens, user names)   *)
(* are TLA+ strings.                                                       *)
(***************************************************************************)
EXTENDS Naturals, Sequences, FiniteSets, TLC

None == <<>>
Some(x) == <<x>>

(***************************************************************************)
(* Inputs of the environment: caller arguments and server answers.         *)
(***************************************************************************)
Hostnames == { <<"v", "c", "1">>, <<"e", "s", "x">> }
Usernames == { "alice", "bob" }
Passwords == { None, Some("abc") }
Tokens    == { "", "tok123", "tok456" }

OK == 200
UNAUTHORIZED == 401
StatusCodes == { OK, UNAUTHORIZED, 204, 404, 500 }

LoginStatusValues ==
    { [user |-> u,
       created_time |-> "2024-01-01T00:00:00Z",
       last_accessed_time |-> "2024-01-01T00:05:00Z"] : u \in Usernames }

\* Response bodies the server may produce: not JSON at all, a JSON object
\* without the field "value", {"value": "<string>"} and
\* {"value": {user, created_time, last_accessed_time}}.
Bodies ==
    { [kind |-> "malformed", value |-> ""],
      [kind |-> "no_value", value |-> ""] }
    \cup { [kind |-> "value_string", value |-> t] : t \in Tokens }
    \cup { [kind |-> "value_login_status", value |-> ls] : ls \in LoginStatusValues }

Responses == { [status |-> s, body |-> b] : s \in StatusCodes, b \in Bodies }

(***************************************************************************)
(* Result<_, Error> of an operation.  no_result is the absence of a        *)
(* returned value (the call is in flight, or its future was dropped).      *)
(***************************************************************************)
no_result == [tag |-> "none", ty |-> "none", val |-> FALSE]
OkBool(b) == [tag |-> "Ok", ty |-> "bool", val |-> b]
OkUnit == [tag |-> "Ok", ty |-> "unit", val |-> FALSE]
OkLoginStatus(ls) == [tag |-> "Ok", ty |-> "LoginStatus", val |-> ls]
ErrReqwest == [tag |-> "Err", ty |-> "Reqwest", val |-> FALSE]
ErrUnauthorized == [tag |-> "Err", ty |-> "Unauthorized", val |-> FALSE]
ErrUnexpectedStatusCode(code) == [tag |-> "Err", ty |-> "UnexpectedStatusCode", val |-> code]

\* StatusCode::as_u16
as_u16(status) == status % 65536

(***************************************************************************)
(* common.rs                                                               *)
(***************************************************************************)
\* format!("https://{}/rest/{}", hostname, endpoint)
api_url(host, endpoint) ==
    <<"h", "t", "t", "p", "s", ":", "/", "/">> \o host
        \o <<"/", "r", "e", "s", "t", "/">> \o endpoint

SESSION_ENDPOINT ==
    <<"/", "c", "o", "m", "/", "v", "m", "w", "a", "r", "e", "/",
      "c", "i", "s", "/", "s", "e", "s", "s", "i", "o", "n">>

SESSION_GET_ENDPOINT ==
    SESSION_ENDPOINT \o <<"?", "~", "a", "c", "t", "i", "o", "n", "=", "g", "e", "t">>

\* resp.json::<ApiResponse<String>>(): the wrapper's value, or None when the
\* body does not deserialize into {value: String}.
json_String(body) ==
    IF body.kind = "value_string" THEN Some(body.value) ELSE None

\* A LoginStatus whose field names do not match the server's: no body
\* deserializes into it.
json_LoginStatus_field_mismatch(body) == None

\* resp.json::<ApiResponse<LoginStatus>>()
json_LoginStatus(body) ==
    IF body.kind = "value_login_status" THEN Some(body.value) ELSE None

(***************************************************************************)
(* State                                                                   *)
(***************************************************************************)
VARIABLES
    hostname,           \* Session.hostname
    client,             \* Session.client (its configuration)
    session_id,         \* Session.session_id : Option<String>
    logged_in_user,     \* Session.logged_in_user : Option<&str>
    pc,                 \* await point the running operation is suspended at
    op,                 \* operation called last
    username,           \* argument of the running / last login
    request,            \* request handed to send() by the last call
    resp,               \* Response received by the last call, if any
    body_read,          \* TRUE once resp's body has been read completely
    result,             \* value returned by the last call
    cancelled,          \* TRUE when the last call's future was dropped
    old_session_id,     \* session_id when the last call started
    old_logged_in_user, \* logged_in_user when the last call started
    sent,               \* requests handed to send() by the last call
    test_stage,         \* how far the calls before the last one follow the
                        \* test login_login_status_logout
    after_logout,       \* TRUE when, before the last call, a logout returned
                        \* Ok(()) and no login has returned Ok(true) since
    last_ok_login       \* value and username of the last login that
                        \* returned Ok(true)

vars == << hostname, client, session_id, logged_in_user, pc, op, username,
           request, resp, body_read, result, cancelled,
           old_session_id, old_logged_in_user,
           sent, test_stage, after_logout, last_ok_login >>

session_vars == << session_id, logged_in_user >>
const_vars == << hostname, client >>
call_vars == << op, username, request, old_session_id, old_logged_in_user >>
history_vars == << test_stage, after_logout >>

\* A constructor that starts with an empty token instead of no token.
Session_new_empty_token(h, insecure_certs) ==
    [hostname |-> h,
     client |-> [danger_accept_invalid_certs |-> insecure_certs, tls |-> "rustls"],
     session_id |-> Some(""),
     logged_in_user |-> None]

\* Session::new(hostname, insecure_certs)
Session_new(h, insecure_certs) ==
    [hostname |-> h,
     client |-> [danger_accept_invalid_certs |-> insecure_certs, tls |-> "rustls"],
     session_id |-> None,
     logged_in_user |-> None]

Init ==
    \E h \in Hostnames, insecure_certs \in BOOLEAN :
        LET s == Session_new(h, insecure_certs) IN
        /\ hostname = s.hostname
        /\ client = s.client
        /\ session_id = s.session_id
        /\ logged_in_user = s.logged_in_user
        /\ pc = "idle"
        /\ op = "none"
        /\ username = ""
        /\ request = None
        /\ resp = None
        /\ body_read = FALSE
        /\ result = no_result
        /\ cancelled = FALSE
        /\ old_session_id = None
        /\ old_logged_in_user = None
        /\ sent = 0
        /\ test_stage = 0
        /\ after_logout = FALSE
        /\ last_ok_login = None

(***************************************************************************)
(* cis.rs: the code between two await points, as functions of the session  *)
(* fields (self) and of what the await produced.  Each yields the await    *)
(* point reached next ("idle" when the operation returns), the session     *)
(* fields and the returned value.                                          *)
(***************************************************************************)
Self == [session_id |-> session_id, logged_in_user |-> logged_in_user]

Step(next, sid, user, res) ==
    [pc |-> next, session_id |-> sid, logged_in_user |-> user, result |-> res]

\* self.client.request(Method::POST, api_url!(..)).basic_auth(username, password)
login_request(host, user, password) ==
    [method |-> "POST",
     url |-> api_url(host, SESSION_ENDPOINT),
     basic_auth |-> Some(<<user, password>>),
     vmware_api_session_id |-> None]

\* authenticated_request leaving the header out when no token is set.
authenticated_request_omits_header(self, method, url) ==
    [method |-> method,
     url |-> url,
     basic_auth |-> None,
     vmware_api_session_id |->
        IF self.session_id # None THEN Some(self.session_id[1]) ELSE None]

\* Session::authenticated_request
authenticated_request(self, method, url) ==
    [method |-> method,
     url |-> url,
     basic_auth |-> None,
     vmware_api_session_id |->
        Some(IF self.session_id # None THEN self.session_id[1] ELSE "")]

\* A failed send() that also resets the session.
send_failed_resets(self) ==
    Step("idle", None, None, ErrReqwest)

\* `.send().await?` failing: the error is converted by From and returned.
send_failed(self) ==
    Step("idle", self.session_id, self.logged_in_user, ErrReqwest)

\* login refusing, after the response, to log in over an existing session.
login_on_status_requires_anonymous(self, status) ==
    IF self.session_id # None
    THEN Step("idle", self.session_id, self.logged_in_user, ErrUnauthorized)
    ELSE IF status = OK
    THEN Step("login_json", self.session_id, self.logged_in_user, no_result)
    ELSE IF status = UNAUTHORIZED
    THEN Step("idle", self.session_id, self.logged_in_user, OkBool(FALSE))
    ELSE Step("idle", self.session_id, self.logged_in_user,
              ErrUnexpectedStatusCode(as_u16(status)))

\* login treating 401 as the end of the session.
login_on_status_401_clears(self, status) ==
    IF status = OK
    THEN Step("login_json", self.session_id, self.logged_in_user, no_result)
    ELSE IF status = UNAUTHORIZED
    THEN Step("idle", None, None, OkBool(FALSE))
    ELSE Step("idle", self.session_id, self.logged_in_user,
              ErrUnexpectedStatusCode(as_u16(status)))

\* login: `match status` on the received response.
login_on_status(self, status) ==
    IF status = OK
    THEN Step("login_json", self.session_id, self.logged_in_user, no_result)
    ELSE IF status = UNAUTHORIZED
    THEN Step("idle", self.session_id, self.logged_in_user, OkBool(FALSE))
    ELSE Step("idle", self.session_id, self.logged_in_user,
              ErrUnexpectedStatusCode(as_u16(status)))

\* login without the assignment of logged_in_user.
login_on_body_forgets_user(self, user, parsed) ==
    IF parsed = None
    THEN Step("idle", self.session_id, self.logged_in_user, ErrReqwest)
    ELSE Step("idle", Some(parsed[1]), self.logged_in_user, OkBool(TRUE))

\* login keeping the user of a session that is already authenticated.
login_on_body_keeps_user(self, user, parsed) ==
    IF parsed = None
    THEN Step("idle", self.session_id, self.logged_in_user, ErrReqwest)
    ELSE Step("idle", Some(parsed[1]),
              IF self.logged_in_user # None THEN self.logged_in_user ELSE Some(user),
              OkBool(TRUE))

\* login keeping the token of a session that is already authenticated.
login_on_body_keeps_token(self, user, parsed) ==
    IF parsed = None
    THEN Step("idle", self.session_id, self.logged_in_user, ErrReqwest)
    ELSE Step("idle",
              IF self.session_id # None THEN self.session_id ELSE Some(parsed[1]),
              Some(user), OkBool(TRUE))

\* login resetting the session when the body of a 200 does not parse.
login_on_body_error_clears(self, user, parsed) ==
    IF parsed = None
    THEN Step("idle", None, None, ErrReqwest)
    ELSE Step("idle", Some(parsed[1]), Some(user), OkBool(TRUE))

\* login: `resp.json().await?` and the assignments that follow it.
login_on_body(self, user, parsed) ==
    IF parsed = None
    THEN Step("idle", self.session_id, self.logged_in_user, ErrReqwest)
    ELSE Step("idle", Some(parsed[1]), Some(user), OkBool(TRUE))

\* login_status dropping the local session when the server rejects the token.
login_status_on_status_401_clears(self, status) ==
    IF status = OK
    THEN Step("login_status_json", self.session_id, self.logged_in_user, no_result)
    ELSE IF status = UNAUTHORIZED
    THEN Step("idle", None, None, ErrUnauthorized)
    ELSE Step("idle", self.session_id, self.logged_in_user,
              ErrUnexpectedStatusCode(as_u16(status)))

\* login_status: `match status` on the received response.
login_status_on_status(self, status) ==
    IF status = OK
    THEN Step("login_status_json", self.session_id, self.logged_in_user, no_result)
    ELSE IF status = UNAUTHORIZED
    THEN Step("idle", self.session_id, self.logged_in_user, ErrUnauthorized)
    ELSE Step("idle", self.session_id, self.logged_in_user,
              ErrUnexpectedStatusCode(as_u16(status)))

\* login_status: `resp.json().await?` and `Ok(resp.value)`.
login_status_on_body(self, parsed) ==
    IF parsed = None
    THEN Step("idle", self.session_id, self.logged_in_user, ErrReqwest)
    ELSE Step("idle", self.session_id, self.logged_in_user, OkLoginStatus(parsed[1]))

\* logout sending its request again when the status is unexpected.
logout_on_status_retries(self, status) ==
    IF status = OK
    THEN Step("idle", None, None, OkUnit)
    ELSE IF status = UNAUTHORIZED
    THEN Step("idle", self.session_id, self.logged_in_user, OkUnit)
    ELSE Step("logout_send", self.session_id, self.logged_in_user, no_result)

\* logout clearing the session before it looks at the status.
logout_on_status_always_clears(self, status) ==
    IF status = OK
    THEN Step("idle", None, None, OkUnit)
    ELSE IF status = UNAUTHORIZED
    THEN Step("idle", self.session_id, self.logged_in_user, OkUnit)
    ELSE Step("idle", None, None, ErrUnexpectedStatusCode(as_u16(status)))

\* logout reporting 401 as Unauthorized, as login_status does.
logout_on_status_401_is_error(self, status) ==
    IF status = OK
    THEN Step("idle", None, None, OkUnit)
    ELSE IF status = UNAUTHORIZED
    THEN Step("idle", self.session_id, self.logged_in_user, ErrUnauthorized)
    ELSE Step("idle", self.session_id, self.logged_in_user,
              ErrUnexpectedStatusCode(as_u16(status)))

\* logout: `match status` on the received response.
logout_on_status(self, status) ==
    IF status = OK
    THEN Step("idle", None, None, OkUnit)
    ELSE IF status = UNAUTHORIZED
    THEN Step("idle", self.session_id, self.logged_in_user, OkUnit)
    ELSE Step("idle", self.session_id, self.logged_in_user,
              ErrUnexpectedStatusCode(as_u16(status)))

(***************************************************************************)
(* Actions.  An operation is called when no other is running (&mut self),  *)
(* runs up to its first await, and is resumed by the transport.            *)
(***************************************************************************)
\* The await points at which a request has just been handed to send().
SendPoints == { "login_send", "login_status_send", "logout_send" }

\* tests::login_login_status_logout: the number of leading calls of the test
\* (a rejected login, an accepted login, a login_status that returns the
\* user of that login) that the calls completed so far end with.
next_test_stage ==
    IF cancelled \/ op = "none" THEN 0
    ELSE IF op = "login" /\ result = OkBool(FALSE) THEN 1
    ELSE IF test_stage = 1 /\ op = "login" /\ result = OkBool(TRUE) THEN 2
    ELSE IF test_stage = 2 /\ op = "login_status" /\ result.ty = "LoginStatus"
            /\ result.val.user = username THEN 3
    ELSE 0

\* Whether the calls completed so far end with a logout that returned Ok(())
\* followed by no login that returned Ok(true).
next_after_logout ==
    IF cancelled THEN after_logout
    ELSE IF op = "logout" /\ result = OkUnit THEN TRUE
    ELSE IF op = "login" /\ result = OkBool(TRUE) THEN FALSE
    ELSE after_logout

\* The operation `name` starts and hands `req` to send().
Call(name, user, req) ==
    /\ pc = "idle"
    /\ op' = name
    /\ username' = user
    /\ request' = Some(req)
    /\ old_session_id' = session_id
    /\ old_logged_in_user' = logged_in_user
    /\ resp' = None
    /\ body_read' = FALSE
    /\ result' = no_result
    /\ cancelled' = FALSE
    /\ sent' = 1
    /\ test_stage' = next_test_stage
    /\ after_logout' = next_after_logout
    /\ UNCHANGED << session_vars, const_vars, last_ok_login >>

\* The running operation continues with step s.
Resume(s) ==
    /\ pc' = s.pc
    /\ session_id' = s.session_id
    /\ logged_in_user' = s.logged_in_user
    /\ result' = s.result
    /\ sent' = IF s.pc \in SendPoints THEN sent + 1 ELSE sent
    /\ UNCHANGED << const_vars, call_vars, cancelled, history_vars >>

login(user, password) ==
    /\ Call("login", user, login_request(hostname, user, password))
    /\ pc' = "login_send"

login_status ==
    /\ Call("login_status", username,
            authenticated_request(Self, "POST", api_url(hostname, SESSION_GET_ENDPOINT)))
    /\ pc' = "login_status_send"

logout ==
    /\ Call("logout", username,
            authenticated_request(Self, "DELETE", api_url(hostname, SESSION_ENDPOINT)))
    /\ pc' = "logout_send"

\* send().await fails: connection, TLS, timeout.
send_error ==
    /\ pc \in SendPoints
    /\ Resume(send_failed(Self))
    /\ UNCHANGED << resp, body_read, last_ok_login >>

\* send().await of login yields the response r.
login_response(r) ==
    /\ pc = "login_send"
    /\ resp' = Some(r)
    /\ Resume(login_on_status(Self, r.status))
    /\ UNCHANGED << body_read, last_ok_login >>

\* send().await of login_status yields the response r.
login_status_response(r) ==
    /\ pc = "login_status_send"
    /\ resp' = Some(r)
    /\ Resume(login_status_on_status(Self, r.status))
    /\ UNCHANGED << body_read, last_ok_login >>

\* send().await of logout yields the response r; only its status is used.
logout_response(r) ==
    /\ pc = "logout_send"
    /\ resp' = Some(r)
    /\ Resume(logout_on_status(Self, r.status))
    /\ UNCHANGED << body_read, last_ok_login >>

\* resp.json().await of login has read the whole body.
login_body ==
    /\ pc = "login_json"
    /\ body_read' = TRUE
    /\ Resume(login_on_body(Self, username, json_String(resp[1].body)))
    /\ last_ok_login' = IF result' = OkBool(TRUE)
                         THEN Some([value |-> resp[1].body.value,
                                    username |-> username])
                         ELSE last_ok_login
    /\ UNCHANGED resp

\* resp.json().await of login_status has read the whole body.
login_status_body ==
    /\ pc = "login_status_json"
    /\ body_read' = TRUE
    /\ Resume(login_status_on_body(Self, json_LoginStatus(resp[1].body)))
    /\ UNCHANGED << resp, last_ok_login >>

\* resp.json().await fails while the body is being received.
body_error ==
    /\ pc \in { "login_json", "login_status_json" }
    /\ Resume(send_failed(Self))
    /\ UNCHANGED << resp, body_read, last_ok_login >>

\* The caller drops the future of the running operation at its await point.
cancel ==
    /\ pc # "idle"
    /\ pc' = "idle"
    /\ cancelled' = TRUE
    /\ UNCHANGED << session_vars, const_vars, call_vars, resp, body_read, result,
                    sent, history_vars, last_ok_login >>

Next ==
    \/ \E u \in Usernames, p \in Passwords : login(u, p)
    \/ login_status
    \/ logout
    \/ send_error
    \/ \E r \in Responses : login_response(r)
    \/ \E r \in Responses : login_status_response(r)
    \/ \E r \in Responses : logout_response(r)
    \/ login_body
    \/ login_status_body
    \/ body_error
    \/ cancel

Spec == Init /\ [][Next]_vars

TypeOK ==
    /\ hostname \in Hostnames
    /\ session_id \in { None } \cup { Some(t) : t \in Tokens }
    /\ logged_in_user \in { None } \cup { Some(u) : u \in Usernames }
    /\ pc \in { "idle", "login_send", "login_json", "login_status_send",
                "login_status_json", "logout_send" }
    /\ op \in { "none", "login", "login_status", "logout" }

(***************************************************************************)
(* Properties                                                              *)
(***************************************************************************)
\* The operation `name` has returned a value (its future ran to completion).
Returned(name) == pc = "idle" /\ op = name /\ ~cancelled

\* The last call received response headers with status s.
Received(s) == resp # None /\ resp[1].status = s

\* The session fields are what they were when the last call started.
StateKept == session_id = old_session_id /\ logged_in_user = old_logged_in_user

\* The value of the session header for the token held when the call started.
TokenAtCall == IF old_session_id # None THEN old_session_id[1] ELSE ""

\* C1: in every reachable state the session token is set if and only if
\* logged_in_user is set.
C1_TokenIffUser == (session_id # None) <=> (logged_in_user # None)

C1_Witness ==
    /\ Returned("login") /\ result = OkBool(TRUE)
    /\ old_session_id = None /\ session_id # None /\ logged_in_user # None

\* C2: logout returns Ok(()) on status 200 and on status 401, and in both
\* cases it leaves session_token and logged_in_user None.
C2_LogoutClearsOn200And401 ==
    (Returned("logout") /\ (Received(OK) \/ Received(UNAUTHORIZED)))
        => /\ result = OkUnit
           /\ session_id = None
           /\ logged_in_user = None

\* C3: a login answered with 401 returns Ok(false) and leaves session_token
\* and logged_in_user as they were before the call.
C3_Login401KeepsState ==
    (Returned("login") /\ Received(UNAUTHORIZED))
        => result = OkBool(FALSE) /\ StateKept

C3_Witness ==
    /\ Returned("login") /\ Received(UNAUTHORIZED)
    /\ old_session_id # None /\ session_id = old_session_id
    /\ result = OkBool(FALSE)

\* C4: a login(username, password) answered with 200 and the body
\* {"value": t} returns Ok(true) with session_token = t and
\* logged_in_user = username, whatever the state before.
C4_Login200SetsState ==
    (Returned("login") /\ Received(OK) /\ body_read
        /\ resp[1].body.kind = "value_string")
        => /\ result = OkBool(TRUE)
           /\ session_id = Some(resp[1].body.value)
           /\ logged_in_user = Some(username)

C4_Witness ==
    /\ Returned("login") /\ Received(OK) /\ body_read
    /\ resp[1].body.kind = "value_string"
    /\ old_session_id # None /\ session_id # old_session_id
    /\ old_logged_in_user # None /\ logged_in_user # old_logged_in_user

\* C5: the request of every login_status and logout call is handed to the
\* transport and carries the header vmware-api-session-id with the token held
\* when the call started, or with the empty string when no token is set.
C5_SessionHeader ==
    op \in { "login_status", "logout" }
        => /\ request # None
           /\ request[1].basic_auth = None
           /\ request[1].vmware_api_session_id = Some(TokenAtCall)

C5_Witness ==
    /\ Returned("logout") /\ old_session_id = None
    /\ request # None /\ request[1].vmware_api_session_id = Some("")
    /\ Received(UNAUTHORIZED)

\* C6: login_status never changes session_token or logged_in_user, whatever
\* the outcome of the call.
C6_LoginStatusKeepsState == op = "login_status" => StateKept

C6_Witness ==
    /\ Returned("login_status") /\ Received(UNAUTHORIZED)
    /\ result = ErrUnauthorized /\ session_id # None

\* C7: an operation that receives a status other than 200 and 401 returns
\* Err(UnexpectedStatusCode(code)) with the received code and leaves the
\* session state unchanged.
C7_UnexpectedStatus ==
    (pc = "idle" /\ ~cancelled /\ resp # None
        /\ resp[1].status \notin { OK, UNAUTHORIZED })
        => result = ErrUnexpectedStatusCode(resp[1].status) /\ StateKept

C7_Witness ==
    /\ Returned("logout") /\ Received(500)
    /\ result = ErrUnexpectedStatusCode(500)
    /\ session_id # None /\ StateKept

\* C8: a 401 is mapped to Err(Unauthorized) by login_status, to Ok(false) by
\* login and to Ok(()) by logout; Unauthorized is returned by login_status
\* only.
C8_Mapping401 ==
    /\ (pc = "idle" /\ ~cancelled /\ Received(UNAUTHORIZED))
        => result = CASE op = "login_status" -> ErrUnauthorized
                      [] op = "login" -> OkBool(FALSE)
                      [] op = "logout" -> OkUnit
    /\ (result = ErrUnauthorized => op = "login_status")

C8_Witness ==
    /\ Returned("logout") /\ Received(UNAUTHORIZED) /\ result = OkUnit

\* The body of the received response does not parse: as the type the
\* operation deserializes, or, for logout, as JSON at all.
BodyUnparseable ==
    CASE op = "login" -> json_String(resp[1].body) = None
      [] op = "login_status" -> json_LoginStatus(resp[1].body) = None
      [] OTHER -> resp[1].body.kind = "malformed"

\* The last call ended in a transport failure (while sending, or while the
\* body was being received) or was cancelled.
TransportFailedOrCancelled ==
    /\ pc = "idle" /\ op # "none"
    /\ \/ cancelled
       \/ resp = None
       \/ /\ op \in { "login", "login_status" }
          /\ Received(OK) /\ ~body_read

\* C9 as stated: an operation of any kind that ends in a transport failure,
\* a cancellation or a 200 response whose body cannot be parsed returns an
\* error (or is abandoned) and leaves the session state unchanged.
C9_NoCommitBeforeParsed ==
    (\/ TransportFailedOrCancelled
     \/ (pc = "idle" /\ op # "none" /\ Received(OK) /\ BodyUnparseable))
        => result.tag # "Ok" /\ StateKept

\* C9 amended: a transport failure or a cancellation of any operation, and a
\* 200 response whose body cannot be parsed received by login or
\* login_status, end in an error (or no result) with the session state
\* unchanged; logout, which never reads the body, is not covered by the
\* body case.
C9_NoCommitOnFailure ==
    (\/ TransportFailedOrCancelled
     \/ (pc = "idle" /\ op \in { "login", "login_status" }
            /\ Received(OK) /\ BodyUnparseable))
        => result.tag # "Ok" /\ StateKept

C9_Witness ==
    /\ Returned("login") /\ Received(OK) /\ body_read /\ BodyUnparseable
    /\ result = ErrReqwest
    /\ old_session_id # None /\ StateKept

\* C10: a step changes session_token to a value only if login returns
\* Ok(true) in that step, and changes it to None only if logout returns
\* Ok(()) in that step.
C10_TokenChanges ==
    [][ session_id' # session_id
            => /\ pc # "idle" /\ pc' = "idle" /\ ~cancelled'
               /\ IF session_id' # None
                  THEN op' = "login" /\ result' = OkBool(TRUE)
                  ELSE op' = "logout" /\ result' = OkUnit ]_vars

C10_Witness ==
    /\ Returned("logout") /\ result = OkUnit
    /\ old_session_id # None /\ session_id = None

TableMethod(name) == IF name = "logout" THEN "DELETE" ELSE "POST"

TablePath(name) ==
    IF name = "login_status"
    THEN <<"/", "r", "e", "s", "t">> \o SESSION_GET_ENDPOINT
    ELSE <<"/", "r", "e", "s", "t">> \o SESSION_ENDPOINT

\* C12: the request of each operation has the method of the wire-protocol
\* table and the URL https://<hostname><path of the table>.
C12_WireProtocol ==
    op # "none"
        => /\ request # None
           /\ request[1].method = TableMethod(op)
           /\ request[1].url =
                <<"h", "t", "t", "p", "s", ":", "/", "/">> \o hostname \o TablePath(op)

\* C13: after a login that returned Ok(false), a login the server accepts
\* returns Ok(true); a login_status made next and answered with the
\* LoginStatus of that login's user returns it; a logout made after that and
\* answered 200 or 401 returns Ok(()).
C13_RetryAfterRejectedLogin ==
    /\ (test_stage = 1 /\ Returned("login") /\ Received(OK) /\ body_read
            /\ resp[1].body.kind = "value_string")
        => result = OkBool(TRUE)
    /\ (test_stage = 2 /\ Returned("login_status") /\ Received(OK) /\ body_read
            /\ resp[1].body.kind = "value_login_status"
            /\ resp[1].body.value.user = username)
        => /\ request[1].vmware_api_session_id = Some(last_ok_login[1].value)
           /\ result = OkLoginStatus(resp[1].body.value)
           /\ result.val.user = username
    /\ (test_stage = 3 /\ Returned("logout")
            /\ (Received(OK) \/ Received(UNAUTHORIZED)))
        => result = OkUnit

C13_Witness ==
    /\ test_stage = 3 /\ Returned("logout") /\ Received(OK)
    /\ result = OkUnit

\* C14: a call hands exactly one request to the transport, in the step that
\* starts it, and returns one result: nothing is sent again after a failure
\* or a non-200 status, and nothing is sent once the call has returned.
C14_OneRequestPerCall ==
    /\ [](op # "none" => sent = 1 /\ request # None)
    /\ [][ /\ (sent' # sent \/ request' # request)
                => pc = "idle" /\ pc' \in SendPoints /\ sent' = 1
           /\ result' # result
                => \/ pc # "idle" /\ pc' = "idle" /\ result = no_result
                   \/ pc = "idle" /\ pc' \in SendPoints /\ result' = no_result ]_vars

C14_Witness ==
    /\ Returned("logout") /\ Received(500) /\ result.tag = "Err" /\ sent = 1

\* C15: after a logout that returned Ok(()) and until a login returns
\* Ok(true), every request of login_status and logout carries the session
\* header with the empty value.
C15_NoTokenAfterLogout ==
    (after_logout /\ op \in { "login_status", "logout" })
        => request[1].vmware_api_session_id = Some("")

\* C16 as stated, in the states where the last call is a login answered 200
\* (that call is then the most recent login answered 200): an authenticated
\* session holds the value of that response's body and that call's username.
C16_StateOfLast200Login ==
    (Returned("login") /\ Received(OK) /\ session_id # None)
        => /\ resp[1].body.kind = "value_string"
           /\ session_id = Some(resp[1].body.value)
           /\ logged_in_user = Some(username)

\* C16 amended: an authenticated session holds the value and the username of
\* the most recent login that returned Ok(true); a login sends its own
\* request only (no logout for the token it replaces); and a login_status or
\* logout made on an authenticated session presents the token of that most
\* recent login, not an earlier one.
C16_StateOfLastOkLogin ==
    /\ session_id # None
        => /\ last_ok_login # None
           /\ session_id = Some(last_ok_login[1].value)
           /\ logged_in_user = Some(last_ok_login[1].username)
    /\ op = "login"
        => /\ sent = 1
           /\ request[1].method = "POST"
           /\ request[1].basic_auth # None
           /\ request[1].vmware_api_session_id = None
    /\ (op \in { "login_status", "logout" } /\ old_session_id # None)
        => request[1].vmware_api_session_id = Some(last_ok_login[1].value)

C16_Witness ==
    /\ Returned("login") /\ result = OkBool(TRUE) /\ sent = 1
    /\ old_session_id # None /\ old_session_id # session_id
    /\ old_logged_in_user # logged_in_user
    /\ session_id = Some(last_ok_login[1].value)

\* The result each operation returns for what the transport delivered: a
\* function of the operation and of the response only.
ResultFor(name, response, read) ==
    IF response = None THEN ErrReqwest
    ELSE LET s == response[1].status
             b == response[1].body
         IN  IF s = UNAUTHORIZED
             THEN CASE name = "login" -> OkBool(FALSE)
                    [] name = "login_status" -> ErrUnauthorized
                    [] OTHER -> OkUnit
             ELSE IF s # OK THEN ErrUnexpectedStatusCode(s)
             ELSE CASE name = "login" ->
                         IF read /\ b.kind = "value_string"
                         THEN OkBool(TRUE) ELSE ErrReqwest
                    [] name = "login_status" ->
                         IF read /\ b.kind = "value_login_status"
                         THEN OkLoginStatus(b.value) ELSE ErrReqwest
                    [] OTHER -> OkUnit

\* C17: every operation can be called and sends its request whether or not
\* the session is authenticated, and the result it returns is determined by
\* the response alone.
C17_ResultDependsOnResponseOnly ==
    /\ pc = "idle"
        => /\ ENABLED login_status
           /\ ENABLED logout
           /\ \A u \in Usernames, p \in Passwords : ENABLED login(u, p)
    /\ op # "none" => sent = 1
    /\ (pc = "idle" /\ op # "none" /\ ~cancelled)
        => result = ResultFor(op, resp, body_read)

C17_Witness ==
    /\ Returned("login") /\ Received(500)
    /\ old_session_id # None /\ session_id # None
    /\ result = ErrUnexpectedStatusCode(500)

====
